---- MODULE Spec2Model ----
(***************************************************************************)
(* FlatListSlider (src/src/index.tsx): the slide-position controller.      *)
(*                                                                         *)
(* State: the `current` index (useState), the props the auto-advance       *)
(* effect depends on, the timers pending on the host's timer facility,     *)
(* and the last scrollToOffset command handed to the FlatList.             *)
(*                                                                         *)
(* A render and the passive effect it schedules are two steps: React       *)
(* commits the render first and runs useEffect (cleanup of the previous    *)
(* effect, then the new effect) afterwards; it flushes a pending effect    *)
(* before it starts another render.  `lifecycle` records where the         *)
(* component is in that cycle.                                             *)
(***************************************************************************)
EXTENDS Integers, FiniteSets

\* ----------------------------------------------------------------- bounds

MaxSlides == 2

MaxWidth == 2

MaxTimerIds == 2

MaxGestures == 2

DefaultDuration == 3000

Durations == {DefaultDuration, 2 * DefaultDuration}

Max(a, b) == IF a >= b THEN a ELSE b

\* ------------------------------------------------------- JavaScript numbers
\* A JS number is an integer, NaN or Infinity (x / 0 and what follows from it).

Num(n) == [k |-> "int", v |-> n]

NaN == [k |-> "nan", v |-> 0]

Infinity == [k |-> "inf", v |-> 0]

\* a === b: NaN is not equal to anything, itself included.
StrictEq(a, b) == a.k # "nan" /\ b.k # "nan" /\ a = b

\* c + 1
Add1(c) == IF c.k = "int" THEN Num(c.v + 1) ELSE c

\* w * c, w a finite non-negative number: 0 * Infinity is NaN.
Mul(w, c) ==
  CASE c.k = "int" -> Num(w * c.v)
    [] c.k = "nan" -> NaN
    [] OTHER -> IF w = 0 THEN NaN ELSE Infinity

\* Math.round(x / w) for x >= 0, w >= 0: halves round up; 0/0 is NaN, x/0 is
\* Infinity, and Math.round keeps both.
MathRound(x, w) ==
  IF w = 0
    THEN (IF x = 0 THEN NaN ELSE Infinity)
    ELSE Num((2 * x + w) \div (2 * w))

\* ------------------------------------------------------------------ state

VARIABLES
  current,        \* useState(0): the displayed index, a JS number
  imagesLength,   \* images.length
  width,          \* styles.slide.width
  duration,       \* p.duration
  animated,       \* p.animated
  showIndicator,  \* p.showIndicator
  lifecycle,      \* "committed" | "idle" | "unmounting" | "unmounted"
  timers,         \* pending setTimeout callbacks, each with what it closed over
  cleanupId,      \* the id the registered effect cleanup will clear (0: none)
  scrollCmd,      \* the last scrollToOffset command given to the FlatList
  inFlight,       \* LiveSpec: commanded offsets the list has yet to report
  gestures        \* LiveSpec: the user's presses and drags so far

vars ==
  <<current, imagesLength, width, duration, animated, showIndicator, lifecycle,
    timers, cleanupId, scrollCmd, inFlight, gestures>>

\* The list's and the user's bookkeeping, kept only where the list is assumed
\* to report every command (LiveSpec).
env == <<inFlight, gestures>>

props == <<imagesLength, width, duration, animated, showIndicator>>

NoCmd == [by |-> "none", index |-> Num(0), offset |-> Num(0), animated |-> FALSE]

\* sliderRef.current is the FlatList while the component is mounted, null after
\* the unmount is committed.
SliderRefCurrent == lifecycle \in {"committed", "idle"}

\* width: 'window' takes the window width less the spacing already applied.
SlideWidth(isWindow, pWidth, windowWidth, preAppliedSpacing) ==
  IF isWindow THEN windowWidth - preAppliedSpacing ELSE pWidth

\* The widths a configuration can resolve to.
Widths ==
  { SlideWidth(b, pw, ww, sp) :
      b \in BOOLEAN, pw \in 0..MaxWidth,
      ww \in 0..MaxWidth, sp \in 0..MaxWidth } \cap (0..MaxWidth)

\* The dependency array of the auto-advance effect.
EffectDepsDropCurrent(c, a, d, n, w) == <<a, d, n, w>>

EffectDeps(c, a, d, n, w) == <<c, a, d, n, w>>

Deps == EffectDeps(current, animated, duration, imagesLength, width)

TimerDeps(t) == EffectDeps(t.current, t.animated, t.duration, t.imagesLength, t.width)

\* After a render with the values (c, a, d, n, w): the effect is scheduled to
\* re-run when a dependency differs from the previous render's.
AfterRender(c, a, d, n, w) ==
  IF EffectDeps(c, a, d, n, w) # Deps THEN "committed" ELSE lifecycle

Init ==
  /\ current = Num(0)
  /\ imagesLength \in 0..MaxSlides
  /\ width \in Widths
  /\ duration \in Durations
  /\ animated \in BOOLEAN
  /\ showIndicator \in BOOLEAN
  /\ lifecycle = "committed"
  /\ timers = {}
  /\ cleanupId = 0
  /\ scrollCmd = NoCmd
  /\ inFlight = {}
  /\ gestures = 0

\* ------------------------------------------------------ auto-advance effect

\* clearTimeout(id)
ClearTimeoutNoop(ts, id) == ts

ClearTimeout(ts, id) == {t \in ts : t.id # id}

\* setTimeout returns an id no pending timer has.
FreeTimerIds(ts) == {i \in 1..MaxTimerIds : \A t \in ts : t.id # i}

\* useEffect: the previous effect's cleanup, then setTimeout(callback, p.duration)
\* with the callback closing over this render's values.
RunEffect ==
  /\ lifecycle = "committed"
  /\ LET kept == ClearTimeout(timers, cleanupId) IN
       /\ FreeTimerIds(kept) # {}
       /\ LET id == CHOOSE i \in FreeTimerIds(kept) : \A j \in FreeTimerIds(kept) : i <= j IN
            /\ timers' = kept \cup
                 {[id |-> id, current |-> current, imagesLength |-> imagesLength,
                   width |-> width, duration |-> duration, animated |-> animated]}
            /\ cleanupId' = id
  /\ lifecycle' = "idle"
  /\ UNCHANGED <<current, props, scrollCmd>>

\* The setTimeout callback's scrollToOffset argument, from the values it closed
\* over: back to offset 0 from the last slide, else one slide further.
TimeoutCallbackOffByOne(t) ==
  IF StrictEq(Num(t.imagesLength), t.current)
    THEN [by |-> "timer", index |-> Num(0), offset |-> Num(0), animated |-> TRUE]
    ELSE [by |-> "timer", index |-> Add1(t.current),
          offset |-> Mul(t.width, Add1(t.current)), animated |-> TRUE]

TimeoutCallback(t) ==
  IF StrictEq(Num(t.imagesLength - 1), t.current)
    THEN [by |-> "timer", index |-> Num(0), offset |-> Num(0), animated |-> TRUE]
    ELSE [by |-> "timer", index |-> Add1(t.current),
          offset |-> Mul(t.width, Add1(t.current)), animated |-> TRUE]

\* A pending timer fires: nothing when the ref is null, else the command.
TimerFireSetsCurrent(t) ==
  /\ t \in timers
  /\ timers' = timers \ {t}
  /\ IF SliderRefCurrent
       THEN /\ scrollCmd' = TimeoutCallback(t)
            /\ current' = scrollCmd'.index
       ELSE UNCHANGED <<scrollCmd, current>>
  /\ UNCHANGED <<props, lifecycle, cleanupId>>

TimerFire(t) ==
  /\ t \in timers
  /\ timers' = timers \ {t}
  /\ IF SliderRefCurrent
       THEN scrollCmd' = TimeoutCallback(t)
       ELSE UNCHANGED scrollCmd
  /\ UNCHANGED <<current, props, lifecycle, cleanupId>>

\* ------------------------------------------------------------- the FlatList

\* The offsets a horizontal list of imagesLength items of `width` each can
\* report in a viewport vw wide, with bounces off.
ReportableOffsets(vw) == 0..Max(0, imagesLength * width - vw)

\* onScroll: index from offset and viewport width; setCurrent when it differs.
\* setCurrent re-renders unless the state is the same value (Object.is), and a
\* re-render starts only once the pending effect has been flushed.
OnScroll(x, vw) ==
  /\ SliderRefCurrent
  /\ LET index == MathRound(x, vw) IN
       /\ lifecycle = "idle" \/ index = current
       /\ current' = IF ~StrictEq(current, index) THEN index ELSE current
       /\ lifecycle' = AfterRender(current', animated, duration, imagesLength, width)
  /\ UNCHANGED <<props, timers, cleanupId, scrollCmd>>

\* One pagination dot per image.
IndicatorIndicesOneMore == 0..imagesLength

IndicatorIndices == 0..(imagesLength - 1)

\* onPress of pagination dot i.
DotPress(i) ==
  /\ SliderRefCurrent
  /\ showIndicator
  /\ i \in IndicatorIndices
  /\ scrollCmd' = [by |-> "dot", index |-> Num(i), offset |-> Num(width * i),
                   animated |-> TRUE]
  /\ UNCHANGED <<current, props, lifecycle, timers, cleanupId>>

\* ---------------------------------------------------- the host's re-renders
\* The parent renders the slider with a changed prop.

SetImages(n) ==
  /\ lifecycle = "idle"
  /\ n # imagesLength
  /\ imagesLength' = n
  /\ lifecycle' = AfterRender(current, animated, duration, n, width)
  /\ UNCHANGED <<current, width, duration, animated, showIndicator, timers,
                 cleanupId, scrollCmd>>

SetWidth(w) ==
  /\ lifecycle = "idle"
  /\ w # width
  /\ width' = w
  /\ lifecycle' = AfterRender(current, animated, duration, imagesLength, w)
  /\ UNCHANGED <<current, imagesLength, duration, animated, showIndicator, timers,
                 cleanupId, scrollCmd>>

SetDuration(d) ==
  /\ lifecycle = "idle"
  /\ d # duration
  /\ duration' = d
  /\ lifecycle' = AfterRender(current, animated, d, imagesLength, width)
  /\ UNCHANGED <<current, imagesLength, width, animated, showIndicator, timers,
                 cleanupId, scrollCmd>>

SetAnimated(a) ==
  /\ lifecycle = "idle"
  /\ a # animated
  /\ animated' = a
  /\ lifecycle' = AfterRender(current, a, duration, imagesLength, width)
  /\ UNCHANGED <<current, imagesLength, width, duration, showIndicator, timers,
                 cleanupId, scrollCmd>>

SetShowIndicator(s) ==
  /\ lifecycle = "idle"
  /\ s # showIndicator
  /\ showIndicator' = s
  /\ UNCHANGED <<current, imagesLength, width, duration, animated, lifecycle,
                 timers, cleanupId, scrollCmd>>

\* The unmount is committed: the ref is detached; the effect cleanup follows.
Unmount ==
  /\ lifecycle = "idle"
  /\ lifecycle' = "unmounting"
  /\ UNCHANGED <<current, props, timers, cleanupId, scrollCmd>>

\* The last effect's cleanup, on unmount.
UnmountCleanup ==
  /\ lifecycle = "unmounting"
  /\ timers' = ClearTimeout(timers, cleanupId)
  /\ lifecycle' = "unmounted"
  /\ UNCHANGED <<current, props, cleanupId, scrollCmd>>

\* ---------------------------------------------------------- specifications

\* The component among a list and a host that may do anything they can.
Next ==
  \/ RunEffect /\ UNCHANGED env
  \/ \E t \in timers : TimerFire(t) /\ UNCHANGED env
  \/ \E vw \in 0..MaxWidth : \E x \in ReportableOffsets(vw) :
       OnScroll(x, vw) /\ UNCHANGED env
  \/ \E i \in 0..MaxSlides : DotPress(i) /\ UNCHANGED env
  \/ \E n \in 0..MaxSlides : SetImages(n) /\ UNCHANGED env
  \/ \E w \in Widths : SetWidth(w) /\ UNCHANGED env
  \/ \E d \in Durations : SetDuration(d) /\ UNCHANGED env
  \/ \E a \in BOOLEAN : SetAnimated(a) /\ UNCHANGED env
  \/ \E s \in BOOLEAN : SetShowIndicator(s) /\ UNCHANGED env
  \/ Unmount /\ UNCHANGED env
  \/ UnmountCleanup /\ UNCHANGED env

Spec == Init /\ [][Next]_vars

\* Auto-advance with a list that reports every command: at least two slides as
\* wide as the viewport, no re-configuration, and a user who presses dots and
\* drags the list a bounded number of times.  The effect is eventually
\* flushed, a pending timer eventually fires, and every scrollToOffset is
\* eventually followed by a scroll notification at its offset.
LiveInit == Init /\ imagesLength >= 2 /\ width >= 1

LiveRunEffect == RunEffect /\ UNCHANGED env

LiveTimerFire ==
  \E t \in timers :
    /\ TimerFire(t)
    /\ inFlight' = IF SliderRefCurrent /\ scrollCmd'.offset.k = "int"
                     THEN inFlight \cup {scrollCmd'.offset.v}
                     ELSE inFlight
    /\ UNCHANGED gestures

ScrollSettled(o) ==
  /\ o \in inFlight
  /\ OnScroll(o, width)
  /\ inFlight' = inFlight \ {o}
  /\ UNCHANGED gestures

UserDotPress(i) ==
  /\ gestures < MaxGestures
  /\ DotPress(i)
  /\ inFlight' = inFlight \cup {scrollCmd'.offset.v}
  /\ gestures' = gestures + 1

UserDrag(x) ==
  /\ gestures < MaxGestures
  /\ OnScroll(x, width)
  /\ current' # current
  /\ gestures' = gestures + 1
  /\ UNCHANGED inFlight

LiveNext ==
  \/ LiveRunEffect
  \/ LiveTimerFire
  \/ \E o \in 0..(MaxSlides * MaxWidth) : ScrollSettled(o)
  \/ \E i \in 0..MaxSlides : UserDotPress(i)
  \/ \E x \in ReportableOffsets(width) : UserDrag(x)

LiveSpec ==
  /\ LiveInit
  /\ [][LiveNext]_vars
  /\ WF_vars(LiveRunEffect)
  /\ WF_vars(LiveTimerFire)
  /\ \A o \in 0..(MaxSlides * MaxWidth) : WF_vars(ScrollSettled(o))

\* ------------------------------------------------------------------ claims

\* C1: a timer armed with at least two slides and an index in range, firing
\* while the list is mounted, targets (index + 1) mod slideCount: the next
\* slide, and slide 0 (never slideCount) from the last one.  The index and the
\* slide count are the ones the callback reads: those it was armed with.
C1_TimerTargetsNextModulo ==
  [][\A t \in timers :
       (/\ TimerFire(t)
        /\ SliderRefCurrent
        /\ t.imagesLength >= 2
        /\ t.current.k = "int"
        /\ t.current.v \in 0..(t.imagesLength - 1))
       => /\ scrollCmd'.by = "timer"
          /\ scrollCmd'.index = Num((t.current.v + 1) % t.imagesLength)]_vars

\* The timer armed on the last slide has fired and targeted slide 0.
C1_Witness ==
  /\ imagesLength >= 2
  /\ current = Num(imagesLength - 1)
  /\ lifecycle = "idle"
  /\ timers = {}
  /\ scrollCmd.by = "timer"
  /\ scrollCmd.index = Num(0)

\* C2: only a step of the scroll handler changes `current`; a timer firing on
\* the mounted list and a pagination-dot press each hand a scrollToOffset
\* command to the list and leave `current` as it is.
C2_ScrollHandlerSoleWriter ==
  [][/\ current' # current =>
          \E vw \in 0..MaxWidth : \E x \in ReportableOffsets(vw) : OnScroll(x, vw)
     /\ \A t \in timers :
          (TimerFire(t) /\ SliderRefCurrent)
          => (current' = current /\ scrollCmd'.by = "timer")
     /\ \A i \in 0..MaxSlides :
          DotPress(i) => (current' = current /\ scrollCmd'.by = "dot")]_vars

\* A timer command was followed by the scroll notification that moved the
\* index to the slide it targeted.
C2_Witness ==
  /\ current = Num(1)
  /\ scrollCmd.by = "timer"
  /\ scrollCmd.index = Num(1)
  /\ lifecycle = "committed"

\* C3: no timer is ever armed with one slide or none.
C3_NoTimerForSingleSlide == \A t \in timers : t.imagesLength >= 2

\* C4: the index is an integer with 0 <= current < max(slideCount, 1).
C4_IndexInRange ==
  /\ current.k = "int"
  /\ 0 <= current.v
  /\ current.v < Max(imagesLength, 1)

\* C5: a scroll notification with a viewport width of 0 leaves the index as it
\* was, whatever the offset.
C5_ZeroViewportNoop ==
  [][\A x \in 0..(MaxSlides * MaxWidth) : OnScroll(x, 0) => current' = current]_vars

\* C6: a timer whose armed values differ from the present ones, or whose
\* component is torn down, emits no scroll command when it fires.
C6_NoStaleTimerFire ==
  [][\A t \in timers :
       (TimerFire(t) /\ (TimerDeps(t) # Deps \/ ~SliderRefCurrent))
       => scrollCmd' = scrollCmd]_vars

\* C7: at most one timer is pending, and a step that arms a timer leaves none
\* of the timers that were pending before it.
C7_AtMostOneTimer ==
  /\ Cardinality(timers) <= 1
  /\ [][/\ Cardinality(timers') <= 1
        /\ \A t \in timers' \ timers : timers \cap timers' = {}]_vars

\* A timer armed for a later index while no timer has fired on the mounted
\* list yet: the timer armed at index 0 was pending and was cancelled.
C7_Witness ==
  /\ scrollCmd = NoCmd
  /\ SliderRefCurrent
  /\ \E t \in timers : t.current.k = "int" /\ t.current.v >= 1

\* C8: the command of a timer fire has offset = nextIndex * slideWidth and the
\* configured `animated` flag.
C8_TimerCommandOffsetAndAnimated ==
  [][\A t \in timers :
       (TimerFire(t) /\ SliderRefCurrent)
       => /\ scrollCmd'.offset = Mul(t.width, scrollCmd'.index)
          /\ scrollCmd'.animated = t.animated]_vars

C10_AutoAdvanceNeverStalls ==
  /\ \A i \in 0..(MaxSlides - 1) :
       (i < imagesLength /\ current = Num(i))
       ~> (/\ current = Num((i + 1) % imagesLength)
           /\ \E t \in timers : t.current = current)
  /\ []<>(timers # {})

\* Back on slide 0 after the wrap, with a fresh timer armed for it.
C10_Witness ==
  /\ current = Num(0)
  /\ scrollCmd.by = "timer"
  /\ scrollCmd.index = Num(0)
  /\ \E t \in timers : t.current = Num(0)

====
